---- MODULE Spec2Model ----
(***************************************************************************)
(* Pairing and relay core of chat-backend/main.py.                         *)
(*                                                                         *)
(* One asyncio task runs websocket_endpoint per connection.  Tasks share   *)
(* the module-level pairing_manager (waiting_users, active_pairs) and are  *)
(* interleaved only at awaits: accept, each send_json, receive_text.  An   *)
(* action below is the code a task executes between two suspensions.       *)
(*                                                                         *)
(* A connection is identified by its index in Conn (the identity of the    *)
(* ChatUser object); its username is the "sub" of the token it presented,  *)
(* so two connections may carry the same username.                         *)
(***************************************************************************)
EXTENDS Integers, Sequences, FiniteSets, TLC

\* Bounds of the model.
NConn == 4          \* connections that are ever opened
MaxEvents == 5      \* client events in total: connection attempts, inbound
                    \* messages and client-side closes

Conn == 1..NConn
Usernames == {"a", "b", "c"}
\* Message contents are interchangeable (they are only copied), so they are
\* named in the order in which they are first relayed.
Content(k) == "m" \o ToString(k)
Contents == {Content(k) : k \in 1..MaxEvents}
None == "None"

VARIABLES
    waiting_users,  \* PairingManager.waiting_users: sequence of connections
    active_pairs,   \* PairingManager.active_pairs: session id -> <<user, partner>>
    username,       \* ChatUser.username of each connection (None before admission)
    pc,             \* position of each connection's task
    users,          \* the local `users` list of the loop the task is in
    idx,            \* index of the next element of `users` the loop sends to
    cur,            \* the local session_id / message content of the running loop
    closed,         \* the peer of the websocket is gone (client closed, or task over)
    sent,           \* messages delivered to each connection, in order
    nevents,        \* client events so far (bounded by MaxEvents)
    formed,         \* history: sessions registered by add_user so far
    removed,        \* history: removals from waiting_users at disconnect so far
    noop_ends,      \* history: <<c, sid>> of the end_session(sid) calls of task c
                    \* for a session c was told of that found sid unregistered
    matched,        \* history: the connections add_user has popped from
                    \* waiting_users into a session
    torn,           \* history: the members of the lists end_session has popped
                    \* from active_pairs
    nchat           \* chat messages taken up for relay so far

vars == <<waiting_users, active_pairs, username, pc, users, idx, cur, closed,
          sent, nevents, formed, removed, noop_ends, matched, torn,
          nchat>>

-----------------------------------------------------------------------------
\* Helpers

Range(s) == {s[i] : i \in 1..Len(s)}

RECURSIVE RemoveFirst(_, _)
\* list.remove(x): drops the first occurrence of x
RemoveFirst(s, x) ==
    IF s = <<>> THEN <<>>
    ELSE IF Head(s) = x THEN Tail(s)
    ELSE <<Head(s)>> \o RemoveFirst(Tail(s), x)

NoCur == [session_id |-> "", content |-> ""]

\* Credentials a client may present: a token is what jwt.decode makes of it.
\* valid is FALSE when jwt.decode raises JWTError (bad signature, expired,
\* not a token), whatever the payload says.
Tokens == [valid : BOOLEAN, sub : Usernames \cup {None}]

\* Identities are interchangeable (they are only concatenated and compared),
\* so they are named in the order of their first admission: a connection
\* brings an identity already in use or the next unused one.
NameOrder == <<"a", "b", "c">>

AdmissibleSubs ==
    LET inUse == {username[c] : c \in Conn} \ {None}
    IN {NameOrder[i] : i \in 1..IF Cardinality(inUse) < Len(NameOrder)
                                THEN Cardinality(inUse) + 1 ELSE Len(NameOrder)}

\* (mutant) the payload is read without verifying the token
DecodeSub_unverified(token) == token.sub

\* jwt.decode + payload.get("sub"): the username, or None when the
\* connection is to be closed with 1008.
DecodeSub(token) == IF token.valid THEN token.sub ELSE None

\* f"{user.username}-{partner.username}"
SessionId(user, partner) == user \o "-" \o partner

\* (mutant) the head is read but left in the list
PopHead_keep(w) == w

\* self.waiting_users.pop(0): the list that is left
PopHead(w) == Tail(w)

\* (mutant) the arriving user is listed twice
NewPair_self(user, partner) == <<user, user>>

\* the member list [user, partner] of a new session
NewPair(user, partner) == <<user, partner>>

\* dict assignment self.active_pairs[session_id] = [user, partner]
DictSet(d, k, v) == [s \in DOMAIN d \cup {k} |-> IF s = k THEN v ELSE d[s]]

\* (mutant) the entry is read but not removed
DictPop_keep(d, k) == d

\* dict.pop(session_id)
DictPop(d, k) == [s \in DOMAIN d \ {k} |-> d[s]]

\* Outbound messages
SessionStart(sid, partner) ==
    [type |-> "session_start", session_id |-> sid, partner |-> partner]
SessionEnd(sid) ==
    [type |-> "session_end", session_id |-> sid]
ChatMessage(sid, user, content) ==
    [type |-> "chat_message", session_id |-> sid, user |-> user, message |-> content]

\* websocket.send_json(msg) on connection c.  A send to an open connection
\* delivers.  The result of a send to a connection whose peer is gone depends
\* on the server stack: the message is dropped, WebSocketDisconnect is raised,
\* or another exception is raised.
SendOutcomes(c) ==
    IF closed[c] THEN {"dropped", "WebSocketDisconnect", "RuntimeError"}
    ELSE {"ok"}

Raises(outcome) == outcome \in {"WebSocketDisconnect", "RuntimeError"}

\* (mutant) the message overtakes the ones delivered before
Deliver_overtake(c, msg, outcome) ==
    sent' = IF outcome = "ok" THEN [sent EXCEPT ![c] = <<msg>> \o @] ELSE sent

\* the client of c receives msg after everything sent to c before
Deliver(c, msg, outcome) ==
    sent' = IF outcome = "ok" THEN [sent EXCEPT ![c] = Append(@, msg)] ELSE sent

\* connection c has received session_start for session id sid
ToldOf(c, sid) ==
    \E i \in 1..Len(sent[c]) :
        sent[c][i].type = "session_start" /\ sent[c][i].session_id = sid

\* The session ids worth naming in a message of c: the registered ones, the
\* ones c was told of, and "x" for every other id (an id that is not
\* registered is handled alike whatever it is).
Named(c) ==
    DOMAIN active_pairs
      \cup {sent[c][i].session_id :
              i \in {j \in 1..Len(sent[c]) : sent[c][j].type = "session_start"}}
      \cup {"x"}

\* Inbound messages of c: what json.loads and the subscripts of the loop make
\* of the received text.  kind "garbage" stands for a text on which json.loads
\* or message["type"] / message["session_id"] raises; kind "other" for a
\* well-formed object whose type is neither chat_message nor end_session.
\* content None is a chat_message without a "content" key; any other content
\* is the next one in the order of relaying.
Inbound(c) ==
    [kind : {"chat_message"}, session_id : Named(c),
     content : {Content(nchat + 1), None}]
      \cup [kind : {"end_session"}, session_id : Named(c), content : {""}]
      \cup [kind : {"other", "garbage"}, session_id : {""}, content : {""}]

Live(c) == pc[c] \notin {"init", "rejected", "ended", "crashed"}

-----------------------------------------------------------------------------
Init ==
    /\ waiting_users = <<>>
    /\ active_pairs = [s \in {} |-> <<>>]
    /\ username = [c \in Conn |-> None]
    /\ pc = [c \in Conn |-> "init"]
    /\ users = [c \in Conn |-> <<>>]
    /\ idx = [c \in Conn |-> 0]
    /\ cur = [c \in Conn |-> NoCur]
    /\ closed = [c \in Conn |-> FALSE]
    /\ sent = [c \in Conn |-> <<>>]
    /\ nevents = 0
    /\ formed = 0
    /\ removed = 0
    /\ noop_ends = {}
    /\ matched = {}
    /\ torn = {}
    /\ nchat = 0

\* The task is over: its locals are dropped and the server closes the socket.
Finish(c, how) ==
    /\ pc' = [pc EXCEPT ![c] = how]
    /\ users' = [users EXCEPT ![c] = <<>>]
    /\ idx' = [idx EXCEPT ![c] = 0]
    /\ cur' = [cur EXCEPT ![c] = NoCur]
    /\ closed' = [closed EXCEPT ![c] = TRUE]

\* Back to `data = await websocket.receive_text()`
BackToReceive(c) ==
    /\ pc' = [pc EXCEPT ![c] = "recv"]
    /\ users' = [users EXCEPT ![c] = <<>>]
    /\ idx' = [idx EXCEPT ![c] = 0]
    /\ cur' = [cur EXCEPT ![c] = NoCur]
    /\ UNCHANGED closed

\* Enter a loop `for user in users: await user.websocket.send_json(...)`
EnterLoop(c, label, us, sid, content) ==
    /\ pc' = [pc EXCEPT ![c] = label]
    /\ users' = [users EXCEPT ![c] = us]
    /\ idx' = [idx EXCEPT ![c] = 1]
    /\ cur' = [cur EXCEPT ![c] = [session_id |-> sid, content |-> content]]
    /\ UNCHANGED closed

\* websocket_endpoint up to `await websocket.accept()`.  Connections are
\* numbered in the order in which their tasks reach add_user (a task does
\* nothing shared before it).
Connect(c, token) ==
    /\ pc[c] = "init"
    /\ \A d \in 1..(c - 1) : pc[d] \notin {"init", "add_user"}
    /\ nevents < MaxEvents
    /\ nevents' = nevents + 1
    /\ DecodeSub(token) \in AdmissibleSubs \cup {None}
    /\ IF DecodeSub(token) = None
       THEN /\ pc' = [pc EXCEPT ![c] = "rejected"]
            /\ closed' = [closed EXCEPT ![c] = TRUE]
            /\ UNCHANGED username
       ELSE /\ pc' = [pc EXCEPT ![c] = "add_user"]
            /\ username' = [username EXCEPT ![c] = DecodeSub(token)]
            /\ UNCHANGED closed
    /\ UNCHANGED <<waiting_users, active_pairs, users, idx, cur, sent, formed,
                   removed, noop_ends, matched, nchat, torn>>

\* (mutant) a match is made only when two clients are waiting
HasWaiting_two(w) == Len(w) >= 2

\* `if self.waiting_users:`
HasWaiting(w) == w # <<>>

\* PairingManager.add_user up to the first send of start_session
add_user(c) ==
    /\ pc[c] = "add_user"
    /\ IF HasWaiting(waiting_users)
       THEN LET partner == Head(waiting_users)
                session_id == SessionId(username[c], username[partner])
            IN /\ waiting_users' = PopHead(waiting_users)
               /\ active_pairs' = DictSet(active_pairs, session_id, NewPair(c, partner))
               /\ formed' = formed + 1
               /\ matched' = matched \cup {partner}
               /\ EnterLoop(c, "start_session", NewPair(c, partner), session_id, "")
       ELSE /\ waiting_users' = Append(waiting_users, c)
            /\ BackToReceive(c)
            /\ UNCHANGED <<active_pairs, formed, matched>>
    /\ UNCHANGED <<username, sent, nevents, removed, noop_ends, torn, nchat>>

\* One iteration of the loop of PairingManager.start_session.  add_user is
\* called outside the try block: an exception of the send ends the task.
start_session(c) ==
    /\ pc[c] = "start_session"
    /\ LET user == users[c][idx[c]]
           partner == IF user = users[c][1] THEN username[users[c][2]]
                      ELSE username[users[c][1]]
       IN \E outcome \in SendOutcomes(user) :
            /\ Deliver(user, SessionStart(cur[c].session_id, partner), outcome)
            /\ IF Raises(outcome) THEN Finish(c, "crashed")
               ELSE IF idx[c] = Len(users[c]) THEN BackToReceive(c)
               ELSE /\ idx' = [idx EXCEPT ![c] = @ + 1]
                    /\ UNCHANGED <<pc, users, cur, closed>>
    /\ UNCHANGED <<waiting_users, active_pairs, username, nevents, formed, removed,
                   noop_ends, matched, nchat, torn>>

\* (mutant) the except block leaves the waiting list alone
RemoveWaiting_skip(c) == UNCHANGED <<waiting_users, removed>>

\* `if chat_user in waiting_users: waiting_users.remove(chat_user)`
RemoveWaiting(c) ==
    IF c \in Range(waiting_users)
    THEN /\ waiting_users' = RemoveFirst(waiting_users, c)
         /\ removed' = removed + 1
    ELSE UNCHANGED <<waiting_users, removed>>

\* The `except WebSocketDisconnect` block up to its first suspension: the scan
\* of active_pairs for a session holding chat_user and, when one is found,
\* the pop of end_session (no await lies between the scan and the pop).
HandleDisconnect(c) ==
    LET found == {s \in DOMAIN active_pairs : c \in Range(active_pairs[s])}
    IN IF found # {}
       THEN \E s \in found :
              /\ active_pairs' = DictPop(active_pairs, s)
              /\ torn' = torn \cup Range(active_pairs[s])
              /\ EnterLoop(c, "except_end_session", active_pairs[s], s, "")
              /\ UNCHANGED <<waiting_users, removed>>
       ELSE /\ RemoveWaiting(c)
            /\ Finish(c, "ended")
            /\ UNCHANGED <<active_pairs, torn>>

\* (mutant) the registry is subscripted without the membership test
UnknownSession_raise(c) == Finish(c, "crashed")

\* `if session_id in active_pairs` is false: nothing of the body runs and the
\* loop goes on to the next receive_text.
UnknownSession(c) == UNCHANGED <<pc, users, idx, cur, closed>>

\* The handling of one received message up to the first send.
handle_message(c, message) ==
    /\ nevents < MaxEvents
    /\ nevents' = nevents + 1
    /\ UNCHANGED <<waiting_users, removed>>
    /\ LET session_id == message.session_id
           registered == session_id \in DOMAIN active_pairs
       IN CASE message.kind = "garbage" ->
                 /\ Finish(c, "crashed")
                 /\ UNCHANGED <<active_pairs, noop_ends, torn, nchat>>
            [] message.kind = "chat_message" /\ registered ->
                 \* message["content"] is evaluated in the first
                 \* iteration, before the send
                 /\ IF message.content = None
                    THEN Finish(c, "crashed") /\ UNCHANGED nchat
                    ELSE /\ EnterLoop(c, "relay", active_pairs[session_id],
                                      session_id, message.content)
                         /\ nchat' = nchat + 1
                 /\ UNCHANGED <<active_pairs, noop_ends, torn>>
            [] message.kind = "chat_message" /\ ~registered ->
                 /\ UnknownSession(c)
                 /\ UNCHANGED <<active_pairs, noop_ends, torn, nchat>>
            [] message.kind = "end_session" /\ registered ->
                 /\ active_pairs' = DictPop(active_pairs, session_id)
                 /\ torn' = torn \cup Range(active_pairs[session_id])
                 /\ EnterLoop(c, "end_session", active_pairs[session_id],
                              session_id, "")
                 /\ UNCHANGED <<noop_ends, nchat>>
            [] message.kind = "end_session" /\ ~registered ->
                 /\ noop_ends' =
                       IF ToldOf(c, session_id)
                       THEN noop_ends \cup {<<c, session_id>>}
                       ELSE noop_ends
                 /\ UnknownSession(c)
                 /\ UNCHANGED <<active_pairs, torn, nchat>>
            [] OTHER ->
                 UNCHANGED <<active_pairs, pc, users, idx, cur, closed,
                             noop_ends, torn, nchat>>

\* `data = await websocket.receive_text()`: WebSocketDisconnect when the peer
\* is gone, else the next message of the client.
receive_text(c) ==
    /\ pc[c] = "recv"
    /\ IF closed[c]
       THEN /\ HandleDisconnect(c)
            /\ UNCHANGED <<nevents, noop_ends, nchat>>
       ELSE \E message \in Inbound(c) : handle_message(c, message)
    /\ UNCHANGED <<username, sent, formed, matched>>

\* Next iteration of the running loop, or `after` when the list is exhausted.
Advance(c) ==
    /\ idx[c] < Len(users[c])
    /\ idx' = [idx EXCEPT ![c] = @ + 1]
    /\ UNCHANGED <<pc, users, cur, closed>>

\* One iteration of the relay loop of websocket_endpoint.
relay(c) ==
    /\ pc[c] = "relay"
    /\ LET u == users[c][idx[c]]
       IN \E outcome \in SendOutcomes(u) :
            /\ Deliver(u, ChatMessage(cur[c].session_id, username[c], cur[c].content),
                       outcome)
            /\ CASE outcome = "WebSocketDisconnect" -> HandleDisconnect(c)
                 [] outcome = "RuntimeError" ->
                      /\ Finish(c, "crashed")
                      /\ UNCHANGED <<waiting_users, active_pairs, removed, torn>>
                 [] OTHER ->
                      /\ Advance(c) \/ (idx[c] = Len(users[c]) /\ BackToReceive(c))
                      /\ UNCHANGED <<waiting_users, active_pairs, removed, torn>>
    /\ UNCHANGED <<username, nevents, formed, noop_ends, matched, nchat>>

\* One iteration of the loop of PairingManager.end_session, called from the
\* message loop.
end_session(c) ==
    /\ pc[c] = "end_session"
    /\ LET user == users[c][idx[c]]
       IN \E outcome \in SendOutcomes(user) :
            /\ Deliver(user, SessionEnd(cur[c].session_id), outcome)
            /\ CASE outcome = "WebSocketDisconnect" -> HandleDisconnect(c)
                 [] outcome = "RuntimeError" ->
                      /\ Finish(c, "crashed")
                      /\ UNCHANGED <<waiting_users, active_pairs, removed, torn>>
                 [] OTHER ->
                      /\ Advance(c) \/ (idx[c] = Len(users[c]) /\ BackToReceive(c))
                      /\ UNCHANGED <<waiting_users, active_pairs, removed, torn>>
    /\ UNCHANGED <<username, nevents, formed, noop_ends, matched, nchat>>

\* One iteration of the loop of PairingManager.end_session, called from the
\* except block: an exception of the send leaves the block, past the
\* waiting_users check; after the loop the check runs and the task returns.
except_end_session(c) ==
    /\ pc[c] = "except_end_session"
    /\ LET user == users[c][idx[c]]
       IN \E outcome \in SendOutcomes(user) :
            /\ Deliver(user, SessionEnd(cur[c].session_id), outcome)
            /\ IF Raises(outcome)
               THEN /\ Finish(c, "crashed")
                    /\ UNCHANGED <<waiting_users, removed>>
               ELSE \/ Advance(c) /\ UNCHANGED <<waiting_users, removed>>
                    \/ /\ idx[c] = Len(users[c])
                       /\ RemoveWaiting(c)
                       /\ Finish(c, "ended")
    /\ UNCHANGED <<active_pairs, username, nevents, formed, noop_ends, matched, nchat,
                   torn>>

\* The client side of connection c goes away (close frame or network loss).
ClientClose(c) ==
    /\ Live(c)
    /\ ~closed[c]
    /\ nevents < MaxEvents
    /\ nevents' = nevents + 1
    /\ closed' = [closed EXCEPT ![c] = TRUE]
    /\ UNCHANGED <<waiting_users, active_pairs, username, pc, users, idx, cur,
                   sent, formed, removed, noop_ends, matched, nchat, torn>>

Next ==
    \/ \E c \in Conn, token \in Tokens : Connect(c, token)
    \/ \E c \in Conn : add_user(c)
    \/ \E c \in Conn : start_session(c)
    \/ \E c \in Conn : receive_text(c)
    \/ \E c \in Conn : relay(c)
    \/ \E c \in Conn : end_session(c)
    \/ \E c \in Conn : except_end_session(c)
    \/ \E c \in Conn : ClientClose(c)

Spec == Init /\ [][Next]_vars

-----------------------------------------------------------------------------
\* Properties

CountIn(s, x) == Cardinality({i \in 1..Len(s) : s[i] = x})

\* connections for which add_user has been called
Arrived == {c \in Conn : pc[c] \notin {"init", "rejected", "add_user"}}

EndLoops == {"end_session", "except_end_session"}

\* the identities of a member list
Identities(us) == {username[u] : u \in Range(us)}

\* the task of c took the step
Acted(c) == <<pc[c], idx[c], users[c]>> # <<pc'[c], idx'[c], users'[c]>>

\* C1: as long as no waiting client has been removed at a disconnect, N calls
\* of add_user have formed exactly floor(N/2) sessions and left N mod 2 (at
\* most one) clients in the waiting list.  (Messages, end_session and the
\* disconnects of paired clients do not disturb the count either.)
C1_HalfOfArrivalsPaired ==
    removed = 0 =>
        /\ formed = Cardinality(Arrived) \div 2
        /\ Len(waiting_users) = Cardinality(Arrived) % 2

C1_Witness ==
    /\ removed = 0
    /\ Cardinality(Arrived) = 3
    /\ formed = 1
    /\ Len(waiting_users) = 1

\* C2: every session_start a connection has received names a partner that is
\* not the recipient's own identity and is the identity of another connection.
C2_PartnerNeverSelf ==
    \A c \in Conn : \A i \in 1..Len(sent[c]) :
        sent[c][i].type = "session_start" =>
            /\ sent[c][i].partner # username[c]
            /\ \E d \in Conn \ {c} : username[d] = sent[c][i].partner

\* C3: a step that forms a session adds a new key to active_pairs: it never
\* registers the session under an id that is already mapped.  (Stated for the
\* sessions of two different identities, where the failure does not rest on
\* a user matched with itself.)
C3_FreshSessionId ==
    [][(/\ formed' = formed + 1
        /\ \E c \in Conn :
              /\ pc[c] = "add_user" /\ pc'[c] = "start_session"
              /\ username[users'[c][1]] # username[users'[c][2]]) =>
         /\ Cardinality(DOMAIN active_pairs') = Cardinality(DOMAIN active_pairs) + 1
         /\ \A s \in DOMAIN active_pairs : active_pairs'[s] = active_pairs[s]]_vars

\* C4: a connection occurs at most once in the waiting list and the member
\* lists of the registered sessions taken together.
C4_ClientAtMostOnce ==
    \A c \in Conn :
        /\ CountIn(waiting_users, c) <= 1
        /\ \A s \in DOMAIN active_pairs : CountIn(active_pairs[s], c) <= 1
        /\ \A s, t \in DOMAIN active_pairs :
              c \in Range(active_pairs[s]) /\ c \in Range(active_pairs[t]) => s = t
        /\ \A s \in DOMAIN active_pairs :
              ~(c \in Range(waiting_users) /\ c \in Range(active_pairs[s]))

C4_Witness ==
    /\ waiting_users # <<>>
    /\ \E s \in DOMAIN active_pairs :
          /\ Len(active_pairs[s]) = 2
          /\ active_pairs[s][1] # active_pairs[s][2]
          /\ Head(waiting_users) \notin Range(active_pairs[s])

\* C5: every registered session has exactly two members, and the task of
\* each of them is still running.
C5_RegisteredMembersLive ==
    \A s \in DOMAIN active_pairs :
        /\ Len(active_pairs[s]) = 2
        /\ \A c \in Range(active_pairs[s]) : Live(c)

\* C6: a connection receives at most one session_end per session id, and no
\* two tasks are notifying the members of the same session: of the calls of
\* end_session for one registered session, one pops it and the others find
\* it gone.
C6_SingleTeardown ==
    /\ \A c \in Conn : \A i, j \in 1..Len(sent[c]) :
          (sent[c][i].type = "session_end" /\ sent[c][i] = sent[c][j]) => i = j
    /\ \A c, d \in Conn :
          (c # d /\ pc[c] \in EndLoops /\ pc[d] \in EndLoops) => users[c] # users[d]

\* the later-arrived member d called end_session for the session of c and d
\* while c, who popped it, is still notifying
C6_Witness ==
    \E c, d \in Conn :
        /\ c # d
        /\ pc[c] = "end_session"
        /\ users[c] = <<d, c>>
        /\ <<d, cur[c].session_id>> \in noop_ends

\* C7: when the except block of a member c whose client disconnected is over,
\* the other member of the session, if its connection is open, has received
\* session_end for the session.
C7_PartnerNotifiedOnDisconnect ==
    [][\A c \in Conn :
         (pc[c] = "except_end_session" /\ pc'[c] \in {"ended", "crashed"}
            /\ c \in Range(users[c]))
         => \A u \in Range(users[c]) \ {c} :
               ~closed[u] => SessionEnd(cur[c].session_id) \in Range(sent'[u])]_vars

\* C8: a registered session is removed only by a step of the task of one of
\* its own two members (or, at the least, of a connection that carries the
\* identity of one of them).
C8_OnlyMembersDestroy ==
    [][\A s \in DOMAIN active_pairs :
         s \notin DOMAIN active_pairs'
         => \E c \in Conn : Acted(c) /\ username[c] \in Identities(active_pairs[s])]_vars

\* C9: a task delivers a chat_message only to the member list of a session
\* its own connection is a member of (or, at the least, one that has a member
\* with the identity of its connection).
C9_RelayWithinOwnSession ==
    [][\A c \in Conn :
         (pc[c] = "relay" /\ Acted(c) /\ sent' # sent)
         => username[c] \in Identities(users[c])]_vars

\* C10: when the relay of a chat_message that a member c sent for its session
\* (of which it has been told by session_start) is over, both members (c
\* included), if their connections are open, have received the chat_message
\* with c's identity and the content.
C10_BothMembersReceive ==
    [][\A c \in Conn :
         (/\ pc[c] = "relay" /\ pc'[c] # "relay" /\ c \in Range(users[c])
          /\ ToldOf(c, cur[c].session_id))
         => \A u \in Range(users[c]) :
               ~closed[u] =>
                  ChatMessage(cur[c].session_id, username[c], cur[c].content)
                      \in Range(sent'[u])]_vars

\* C11: a step of the relay loop of c that sends to the other member never
\* takes the task of c out of the message loop: whatever the send to the peer
\* does, c goes on with the list or back to receive_text.
C11_PeerFailureKeepsSender ==
    [][\A c \in Conn :
         (/\ pc[c] = "relay" /\ Acted(c) /\ ~closed[c]
          /\ c \in Range(users[c])
          /\ ToldOf(c, cur[c].session_id)
          /\ username[users[c][idx[c]]] # username[c])
         => pc'[c] \in {"relay", "recv"}]_vars

\* C12: the handling of an inbound message never ends the task that received
\* it: a malformed or unrecognized message is ignored, and the task is back
\* at receive_text.
C12_MalformedIgnored ==
    [][\A c \in Conn :
         (pc[c] = "recv" /\ ~closed[c])
         => pc'[c] \notin {"crashed", "ended"}]_vars

\* C13: the handling of a chat_message or end_session that names a session
\* id the registry does not hold sends nothing, leaves the waiting list and
\* the registry as they are, and leaves the task at receive_text with its
\* connection open.
C13_UnknownSessionNoEffect ==
    [][\A c \in Conn :
         (pc[c] = "recv" /\ ~closed[c] /\ nevents' # nevents)
         => \A message \in Inbound(c) :
              (/\ message.kind \in {"chat_message", "end_session"}
               /\ message.session_id \notin DOMAIN active_pairs
               /\ handle_message(c, message))
              => /\ UNCHANGED <<waiting_users, active_pairs, sent>>
                 /\ pc'[c] = "recv" /\ ~closed'[c]]_vars

\* an end_session for a session torn down before was handled, and its
\* sender is still in the message loop with its connection open
C13_Witness ==
    \E p \in noop_ends :
        /\ pc[p[1]] = "recv" /\ ~closed[p[1]]
        /\ p[2] \notin DOMAIN active_pairs

\* C14: a client whose task has returned from the except block, as the task
\* of every client removed from the waiting list at its disconnect has, is a
\* member of no session that a later step registers.
C14_RemovedNeverMatched ==
    [][\A c \in Conn :
         pc[c] = "ended"
         => \A s \in DOMAIN active_pairs' :
              c \in Range(active_pairs'[s])
              => s \in DOMAIN active_pairs /\ active_pairs[s] = active_pairs'[s]]_vars

\* connection 1 waited and was removed at its disconnect (it never was in a
\* session); afterwards connection 2 waited and was matched with connection 3
C14_Witness ==
    /\ removed = 1
    /\ pc[1] = "ended" /\ sent[1] = <<>>
    /\ \E s \in DOMAIN active_pairs : active_pairs[s] = <<3, 2>>

\* C15: a connection attempt whose credential fails verification (jwt.decode
\* raises, or the payload has no sub) is closed and changes nothing else: the
\* waiting list, the registry and every client's received messages are as
\* before, and no ChatUser comes to exist for it.
C15_RejectedNoState ==
    [][\A c \in Conn :
         (pc[c] = "init" /\ pc'[c] # "init")
         => \A token \in Tokens :
              ((~token.valid \/ token.sub = None) /\ Connect(c, token))
              => /\ UNCHANGED <<waiting_users, active_pairs, username, sent>>
                 /\ pc'[c] = "rejected" /\ closed'[c]]_vars

\* a connection was rejected while a client was waiting and a session was
\* registered, and the rejected connection is in neither
C15_Witness ==
    \E c \in Conn :
        /\ pc[c] = "rejected" /\ username[c] = None /\ sent[c] = <<>>
        /\ waiting_users # <<>> /\ c \notin Range(waiting_users)
        /\ \E s \in DOMAIN active_pairs : c \notin Range(active_pairs[s])

\* connection c has received session_end
Ended(c) == \E i \in 1..Len(sent[c]) : sent[c][i].type = "session_end"

\* C16: a member that has received session_end for its session has left the
\* message loop: at receive_text it handles no further chat_message (no relay
\* is started) and no further end_session (none is carried out, none is
\* looked up in the registry).
C16_NoInboundAfterEnd ==
    [][\A c \in Conn :
         (Ended(c) /\ pc[c] = "recv" /\ ~closed[c])
         => /\ pc'[c] \notin {"relay", "end_session"}
            /\ \A p \in noop_ends' : p[1] = c => p \in noop_ends]_vars

\* C17: the match of add_user and the handling of a disconnect do not cut
\* into each other.  An arrival is never matched with a client that was
\* matched before.  When the task of a disconnected client handles the
\* disconnect, a client that was matched has its session torn down (now or
\* before) and a client that was not is out of the waiting list; and the
\* teardown started by a matched client notifies its partner, if the
\* partner's connection is open.  (Stated for registries whose sessions pair
\* two different identities.)
C17_MatchAndRemovalAtomic ==
    [][/\ formed' # formed => Head(waiting_users) \notin matched
       /\ \A c \in Conn :
            (/\ pc[c] = "recv" /\ closed[c] /\ Acted(c)
             /\ \A s \in DOMAIN active_pairs :
                  Cardinality(Identities(active_pairs[s])) = 2)
            => IF c \in matched THEN c \in torn'
               ELSE c \notin Range(waiting_users')
       /\ \A c \in matched :
            (/\ pc[c] = "except_end_session" /\ Acted(c)
             /\ users[c][idx[c]] # c /\ ~closed[users[c][idx[c]]])
            => sent'[users[c][idx[c]]] =
                 Append(sent[users[c][idx[c]]], SessionEnd(cur[c].session_id))]_vars

\* the place of a content in the order of relaying
Index(content) == CHOOSE k \in 1..MaxEvents : Content(k) = content

\* C18: the chat messages of one session that a client has received from
\* one sender are in the order in which the sender's task took them up.  (A
\* received message names its sender by username, so this is stated for
\* usernames that a single connection carries.)
C18_RelayOrder ==
    \A u \in Conn : \A i, j \in 1..Len(sent[u]) :
        (/\ i < j
         /\ sent[u][i].type = "chat_message" /\ sent[u][j].type = "chat_message"
         /\ sent[u][i].session_id = sent[u][j].session_id
         /\ sent[u][i].user = sent[u][j].user
         /\ Cardinality({c \in Conn : username[c] = sent[u][i].user}) = 1)
        => Index(sent[u][i].message) < Index(sent[u][j].message)

\* a client has received two chat messages of its partner in one session
C18_Witness ==
    \E u \in Conn : \E i, j \in 1..Len(sent[u]) :
        /\ i < j
        /\ sent[u][i].type = "chat_message" /\ sent[u][j].type = "chat_message"
        /\ sent[u][i].session_id = sent[u][j].session_id
        /\ sent[u][i].user = sent[u][j].user
        /\ sent[u][i].user # username[u]
        /\ Cardinality({c \in Conn : username[c] = sent[u][i].user}) = 1
        /\ ToldOf(u, sent[u][i].session_id)

\* C19: the waiting list never holds more than one client.
C19_AtMostOneWaiting == Len(waiting_users) <= 1

\* a client is waiting after one arrival found the list occupied (a session
\* was formed) and one waiting client was removed at its disconnect
C19_Witness ==
    /\ Len(waiting_users) = 1
    /\ formed >= 1
    /\ removed >= 1

\* C20: whatever a client has received for a session (chat_message or
\* session_end) came after the session_start of that session.
C20_StartFirst ==
    \A c \in Conn : \A j \in 1..Len(sent[c]) :
        sent[c][j].type \in {"chat_message", "session_end"}
        => \E i \in 1..(j - 1) :
             /\ sent[c][i].type = "session_start"
             /\ sent[c][i].session_id = sent[c][j].session_id

====
